---- MODULE Spec2Model ----
(***************************************************************************)
(* pi-cam-capture: the synthetic camera (src/src/mock.rs), the frame and   *)
(* format model with the YUYV pixel lookup (src/src/traits.rs) and the     *)
(* pattern validators (src/src/validation.rs).                             *)
(*                                                                         *)
(* Encoding notes.                                                         *)
(*  - A Vec<u8> is a sequence of 0..255; Rust index i is TLA+ index i+1.   *)
(*  - u32 values whose full range matters (byte offsets in pixel_at, frame *)
(*    sequence numbers in the validators) are pairs <<hi, lo>> of 16-bit   *)
(*    limbs, because the checker's integers stop at 2^31-1.  Arithmetic on *)
(*    them reports whether the true result left the u32 range.             *)
(*  - An arithmetic overflow panics when the crate is built with overflow  *)
(*    checks (the dev/test profile) and wraps otherwise (the release       *)
(*    profile): overflow_checks is the profile of the build under check.   *)
(*  - f32 arithmetic of yuv_to_rgb and of the luminance is carried out on  *)
(*    exact scaled integers (see yuv_to_rgb and luminance).                *)
(***************************************************************************)
EXTENDS Integers, Sequences, FiniteSets, TLC

VARIABLES
    overflow_checks,  \* build profile: TRUE = overflow panics, FALSE = wraps
    capabilities,     \* MockDevice.capabilities
    format,           \* MockDevice.format
    frame_count,      \* MockDevice.frame_count
    stream,           \* the live MockStream borrowing the device, if any
    last_frame,       \* <<>> or <<f>>: the frame the caller holds
    seqs,             \* sequence numbers returned by the live stream, in order
    returned,         \* sequence numbers of all frames the device returned
    aborted,          \* the process panicked
    negotiated,       \* <<>>, or what the last set_format returned and
                      \* whether with_format has been applied since
    call              \* the last validator / lookup call and its result

vars == <<overflow_checks, capabilities, format, frame_count, stream,
          last_frame, seqs, returned, aborted, negotiated, call>>

(***************************************************************************)
(* Bounds of the model.                                                    *)
(***************************************************************************)
MaxWidth == 24
MaxHeight == 3
MaxFrames == 3
MaxBufLen == 12
MaxCoord == 5
MaxSeqLen == 3
MaxSeqVal == 3
MaxTolerance == 16

(***************************************************************************)
(* u32 arithmetic on 16-bit limb pairs.                                    *)
(***************************************************************************)
Limb == 256 * 256

U32(n) == <<n \div Limb, n % Limb>>

U32Max == <<Limb - 1, Limb - 1>>

\* a + b in u32: the wrapped value and whether the true sum left the range.
U32Add(a, b) ==
    LET lo == a[2] + b[2]
        hi == a[1] + b[1] + (lo \div Limb)
    IN  [v |-> <<hi % Limb, lo % Limb>>, ovf |-> hi >= Limb]

\* The product of two 16-bit limbs as a limb pair (no intermediate exceeds 2^25).
LimbMul(a, b) ==
    LET t  == a * (b \div 256)
        lo == ((t % 256) * 256) + (a * (b % 256))
    IN  <<(t \div 256) + (lo \div Limb), lo % Limb>>

\* a * b in u32: the wrapped value and whether the true product left the range.
U32Mul(a, b) ==
    LET low   == LimbMul(a[2], b[2])
        c1    == LimbMul(a[1], b[2])
        c2    == LimbMul(a[2], b[1])
        hi    == c1[2] + c2[2] + low[1]
        lost  == (a[1] > 0 /\ b[1] > 0) \/ c1[1] > 0 \/ c2[1] > 0
    IN  [v |-> <<hi % Limb, low[2]>>, ovf |-> lost \/ hi >= Limb]

\* `as usize` of a u32, for a value below 2^31.
U32ToNat(a) == (a[1] * Limb) + a[2]

\* a u32 used as a usize byte offset: offset + k >= len, len being a Vec length.
OffsetPlusGe(a, k, len) == a[1] >= 32768 \/ U32ToNat(a) + k >= len

(***************************************************************************)
(* traits.rs: FourCC, Format, DeviceCapabilities, Frame.                   *)
(***************************************************************************)
YUYV == "YUYV"
MJPG == "MJPG"
RGB3 == "RGB3"

\* Format::new: stride and size derived for 2 bytes per pixel.
FormatNew(width, height, fourcc) ==
    LET stride == width * 2
        size   == stride * height
    IN  [width |-> width, height |-> height, fourcc |-> fourcc,
         stride |-> stride, size |-> size]

Min(a, b) == IF a < b THEN a ELSE b

\* The closure `clamp` of yuv_to_rgb on the value num/den: below 0 gives 0,
\* above 255 gives 255, otherwise the `as u8` truncation.
clamp(num, den) ==
    IF num < 0 THEN 0
    ELSE IF num > 255 * den THEN 255
    ELSE num \div den

\* yuv_to_rgb (ITU-R BT.601).  The f32 results are computed on exact scaled
\* integers: r = y + 1.402 v', g = y - 0.34414 u' - 0.71414 v',
\* b = y + 1.772 u', with u' = u - 128 and v' = v - 128.
yuv_to_rgb(y, u, v) ==
    LET u_f == u - 128
        v_f == v - 128
    IN  <<clamp((1000 * y) + (1402 * v_f), 1000),
          clamp((100000 * y) - (34414 * u_f) - (71414 * v_f), 100000),
          clamp((1000 * y) + (1772 * u_f), 1000)>>

PixSome(rgb) == [tag |-> "Some", rgb |-> rgb]
PixNone == [tag |-> "None", rgb |-> <<0, 0, 0>>]
PixPanic == [tag |-> "Panic", rgb |-> <<0, 0, 0>>]

\* Frame::pixel_at on the buffer `data`; x, y, width are u32 values below 2^31.
pixel_at(data, x, y, width) ==
    LET pair_x == x - (x % 2)
        prod   == U32Mul(U32(y), U32(width))
        sum    == U32Add(prod.v, U32(pair_x))
        dbl    == U32Mul(sum.v, U32(2))
        offset == dbl.v
        o      == U32ToNat(offset)
        y_val  == IF x % 2 = 0 THEN data[o + 1] ELSE data[o + 3]
    IN  IF overflow_checks /\ (prod.ovf \/ sum.ovf \/ dbl.ovf) THEN PixPanic
        ELSE IF OffsetPlusGe(offset, 3, Len(data)) THEN PixNone
        ELSE PixSome(yuv_to_rgb(y_val, data[o + 2], data[o + 4]))

(***************************************************************************)
(* mock.rs: the test patterns and the frame generators.                    *)
(***************************************************************************)
ColorBars == [kind |-> "ColorBars", y |-> 0, u |-> 0, v |-> 0]
Gradient == [kind |-> "Gradient", y |-> 0, u |-> 0, v |-> 0]
Solid(y, u, v) == [kind |-> "Solid", y |-> y, u |-> u, v |-> v]

\* The luma/chroma triples `bars` of generate_color_bars.
bars ==
    <<<<235, 128, 128>>, <<210, 16, 146>>, <<170, 166, 16>>, <<145, 54, 34>>,
      <<106, 202, 222>>, <<81, 90, 240>>, <<41, 240, 110>>, <<16, 128, 128>>>>

GenOk(data) == [panic |-> FALSE, data |-> data]
GenPanic == [panic |-> TRUE, data |-> <<>>]

\* The (y, x) of the k-th pass (k = 1, 2, ...) through the body of
\* `for y in 0..height { for x in (0..width).step_by(2) { .. } }`.
PairsPerRow(width) == (width + 1) \div 2
PassCount(width, height) == height * PairsPerRow(width)
PassY(k, width) == (k - 1) \div PairsPerRow(width)
PassX(k, width) == 2 * ((k - 1) % PairsPerRow(width))

\* The buffer after the passes have run in order, pass k storing quad(k) at
\* data[offset(k) .. offset(k)+3] when `offset + 3 < data.len()`: every byte
\* holds what the last pass that stored to it wrote.
ApplyPasses(data, n, offset(_), quad(_)) ==
    [j \in 1..Len(data) |->
        LET ks == {k \in 1..n : /\ offset(k) + 3 < Len(data)
                                /\ offset(k) < j
                                /\ j <= offset(k) + 4}
        IN  IF ks = {} THEN data[j]
            ELSE LET k == CHOOSE m \in ks : \A o \in ks : o <= m
                 IN  quad(k)[j - offset(k)]]

\* generate_color_bars with the two chroma bytes of each group exchanged
\* (Y V Y U): a variant the properties below must tell from the original.
generate_color_bars_vu(data, width, height) ==
    LET bar_width  == width \div 8
        offset(k)  == ((PassY(k, width) * width) + PassX(k, width)) * 2
        bar_idx(k) == Min(PassX(k, width) \div bar_width, 7)
        quad(k)    == LET bar == bars[bar_idx(k) + 1]
                      IN  <<bar[1], bar[3], bar[1], bar[2]>>
    IN  IF PassCount(width, height) > 0 /\ bar_width = 0 THEN GenPanic
        ELSE GenOk(ApplyPasses(data, PassCount(width, height), offset, quad))

\* generate_color_bars.  x / bar_width with bar_width = 0 is a division by
\* zero: the first pass panics.
generate_color_bars(data, width, height) ==
    LET bar_width  == width \div 8
        offset(k)  == ((PassY(k, width) * width) + PassX(k, width)) * 2
        bar_idx(k) == Min(PassX(k, width) \div bar_width, 7)
        quad(k)    == LET bar == bars[bar_idx(k) + 1]
                      IN  <<bar[1], bar[2], bar[1], bar[3]>>
    IN  IF PassCount(width, height) > 0 /\ bar_width = 0 THEN GenPanic
        ELSE GenOk(ApplyPasses(data, PassCount(width, height), offset, quad))

\* generate_gradient with the ramp taken along the rows (y for x): a variant
\* the properties below must tell from the original.
generate_gradient_vertical(data, width, height) ==
    LET offset(k) == ((PassY(k, width) * width) + PassX(k, width)) * 2
        y_val(k)  == ((PassY(k, width) * 255) \div height) % 256
        quad(k)   == <<y_val(k), 128, y_val(k), 128>>
    IN  GenOk(ApplyPasses(data, PassCount(width, height), offset, quad))

\* generate_gradient.
generate_gradient(data, width, height) ==
    LET offset(k) == ((PassY(k, width) * width) + PassX(k, width)) * 2
        y_val(k)  == ((PassX(k, width) * 255) \div width) % 256
        quad(k)   == <<y_val(k), 128, y_val(k), 128>>
    IN  GenOk(ApplyPasses(data, PassCount(width, height), offset, quad))

\* generate_solid: `for i in (0..data.len()).step_by(4)`.
generate_solid(data, y, u, v) ==
    LET offset(k) == 4 * (k - 1)
        quad(k)   == <<y, u, y, v>>
    IN  GenOk(ApplyPasses(data, (Len(data) + 3) \div 4, offset, quad))

\* generate_test_frame: a zeroed buffer of width*height*2 bytes, then the
\* pattern.  The result is the buffer, or the panic of the generator.
generate_test_frame(fmt, pattern) ==
    LET size == (fmt.width * fmt.height) * 2
        data == [i \in 1..size |-> 0]
    IN  CASE pattern.kind = "ColorBars" ->
                 generate_color_bars(data, fmt.width, fmt.height)
          [] pattern.kind = "Gradient" ->
                 generate_gradient(data, fmt.width, fmt.height)
          [] pattern.kind = "Solid" ->
                 generate_solid(data, pattern.y, pattern.u, pattern.v)

\* A frame whose first data byte is the counter value: a variant the
\* properties below must tell from the original.
MockFrame_stamped(fmt, data, seq) ==
    [data |-> [i \in 1..Len(data) |-> IF i = 1 THEN seq % 256 ELSE data[i]],
     metadata |-> [sequence |-> U32(seq), timestamp |-> seq * 33,
                   bytes_used |-> fmt.size]]

\* The Frame that MockStream::next_frame builds from the counter value seq.
MockFrame(fmt, data, seq) ==
    [data |-> data,
     metadata |-> [sequence |-> U32(seq), timestamp |-> seq * 33,
                   bytes_used |-> fmt.size]]

(***************************************************************************)
(* validation.rs: the validators.  A result is Ok, Err(StreamError) with   *)
(* the values its message carries, or the panic of an overflow check.      *)
(***************************************************************************)
VOk == [tag |-> "Ok", kind |-> "none", info |-> <<>>]
VErr(kind, info) == [tag |-> "Err", kind |-> kind, info |-> info]
VPanic == [tag |-> "Panic", kind |-> "none", info |-> <<>>]

\* Expected RGB of the eight bars.
SMPTE_COLOR_BARS ==
    <<<<235, 235, 235>>, <<235, 235, 11>>, <<12, 236, 237>>, <<13, 237, 13>>,
      <<237, 13, 237>>, <<238, 14, 13>>, <<15, 15, 239>>, <<16, 16, 16>>>>

COLOR_TOLERANCE == 15

\* `tolerance as u32` of an i32.
I32AsU32(t) == IF t >= 0 THEN U32(t) ELSE <<Limb + (t \div Limb), t % Limb>>

U32Le(a, b) == a[1] < b[1] \/ (a[1] = b[1] /\ a[2] <= b[2])

\* The difference without the absolute value: a variant the properties
\* below must tell from abs_diff.
abs_diff_signed(a, b) == a - b

abs_diff(a, b) == IF a > b THEN a - b ELSE b - a

\* colors_match that compares the red channel only: a variant the
\* properties below must tell from the original.
colors_match_red_only(actual, expected, tolerance) ==
    U32Le(U32(abs_diff(actual[1], expected[1])), I32AsU32(tolerance))

colors_match(actual, expected, tolerance) ==
    LET r_diff == abs_diff(actual[1], expected[1])
        g_diff == abs_diff(actual[2], expected[2])
        b_diff == abs_diff(actual[3], expected[3])
        tol    == I32AsU32(tolerance)
    IN  U32Le(U32(r_diff), tol) /\ U32Le(U32(g_diff), tol) /\ U32Le(U32(b_diff), tol)

\* The loop of validate_color_bars from bar bar_idx on.
RECURSIVE color_bars_check(_, _, _)
color_bars_check(frame, fmt, bar_idx) ==
    IF bar_idx >= 8 THEN VOk
    ELSE LET width        == fmt.width
             height       == fmt.height
             bar_width    == width \div 8
             center_y     == height \div 2
             sample_x     == (bar_idx * bar_width) + (bar_width \div 2)
             expected_rgb == SMPTE_COLOR_BARS[bar_idx + 1]
             actual       == pixel_at(frame.data, sample_x, center_y, width)
         IN  IF actual.tag = "Panic" THEN VPanic
             ELSE IF actual.tag = "None"
                  THEN VErr("pixel", <<sample_x, center_y>>)
             ELSE IF ~colors_match(actual.rgb, expected_rgb, COLOR_TOLERANCE)
                  THEN VErr("mismatch",
                            <<bar_idx, sample_x, center_y, expected_rgb, actual.rgb>>)
             ELSE color_bars_check(frame, fmt, bar_idx + 1)

validate_color_bars(frame, fmt) == color_bars_check(frame, fmt, 0)

\* Rec. 601 luminance 0.299 r + 0.587 g + 0.114 b, held as thousandths (the
\* f32 value differs from it by rounding only, far below one thousandth).
luminance(rgb) == (299 * rgb[1]) + (587 * rgb[2]) + (114 * rgb[3])

sample_step == 10

\* The end of validate_gradient without its check: a variant the properties
\* below must tell from the original.
luminance_change_check_unchecked(first, last) == VOk

\* The end of validate_gradient: `luminance_change < 50.0` once the scan is
\* over, when there was a first and a last sample.

luminance_change_check(first, last) ==
    IF first # <<>> /\ last # <<>>
    THEN LET luminance_change == last[1] - first[1]
         IN  IF luminance_change < 50000
             THEN VErr("flat", <<luminance_change>>)
             ELSE VOk
    ELSE VOk

\* The loop of validate_gradient from column x on; first, prev and last are
\* the three Option<f32> locals, <<>> for None and <<v>> for Some(v).
RECURSIVE gradient_scan(_, _, _, _, _, _)
gradient_scan(frame, fmt, x, first, prev, last) ==
    LET width    == fmt.width
        center_y == fmt.height \div 2
    IN  IF x >= width THEN luminance_change_check(first, last)
        ELSE LET px == pixel_at(frame.data, x, center_y, width)
                 l  == luminance(px.rgb)
             IN  IF px.tag = "Panic" THEN VPanic
                 ELSE IF px.tag = "None" THEN VErr("pixel", <<x, center_y>>)
                 ELSE IF prev # <<>> /\ l < prev[1] - 1000
                      THEN VErr("not_monotonic", <<x, l, prev[1]>>)
                 ELSE gradient_scan(frame, fmt, x + sample_step,
                                    IF first = <<>> THEN <<l>> ELSE first,
                                    <<l>>, <<l>>)

validate_gradient(frame, fmt) == gradient_scan(frame, fmt, 0, <<>>, <<>>, <<>>)

\* The loop of validate_frame_sequence from Rust index i on.  prev_seq + 1
\* is u32 arithmetic.
RECURSIVE sequence_check(_, _)
sequence_check(frames, i) ==
    IF i >= Len(frames) THEN VOk
    ELSE LET prev_seq == frames[i].metadata.sequence
             curr_seq == frames[i + 1].metadata.sequence
             inc      == U32Add(prev_seq, U32(1))
         IN  IF overflow_checks /\ inc.ovf THEN VPanic
             ELSE IF curr_seq # inc.v THEN VErr("gap", <<i, inc.v, curr_seq>>)
             ELSE sequence_check(frames, i + 1)

validate_frame_sequence(frames) ==
    IF Len(frames) = 0 THEN VErr("empty", <<>>) ELSE sequence_check(frames, 1)

(***************************************************************************)
(* mock.rs: MockDevice and MockStream.                                     *)
(***************************************************************************)
FourCCs == {YUYV, MJPG}

\* The formats a caller hands to set_format / with_format: those of
\* Format::new, and one built field by field (the fields are public).
Formats ==
    {FormatNew(w, h, YUYV) : w \in 0..MaxWidth, h \in 0..MaxHeight}
    \cup {FormatNew(16, 2, c) : c \in FourCCs}
    \cup {[width |-> 16, height |-> 2, fourcc |-> YUYV, stride |-> 40, size |-> 80]}

\* The formats a caller hands to with_format.
BuilderFormats ==
    {FormatNew(8, 1, YUYV),
     [width |-> 16, height |-> 2, fourcc |-> YUYV, stride |-> 40, size |-> 80]}

SolidPatterns ==
    {Solid(16, 128, 128), Solid(235, 128, 128), Solid(128, 0, 255), Solid(200, 64, 192)}

Patterns == {ColorBars, Gradient} \cup SolidPatterns

MockCapabilities ==
    [driver |-> "mock", card |-> "Mock Camera", bus_info |-> "mock:0",
     can_capture |-> TRUE, can_stream |-> TRUE]

NoStream == [open |-> FALSE, pattern |-> ColorBars]
NoCall == [op |-> "none", args |-> <<>>, res |-> VOk]

\* generate_test_frame tabulated, once, over the formats and patterns the
\* bounded stream can be asked for.
GeneratedFrames ==
    [f \in {g \in Formats : g.width <= MaxWidth /\ g.height <= MaxHeight},
     p \in Patterns |-> generate_test_frame(f, p)]

DefaultWidth == 640
DefaultHeight == 480

\* MockDevice::new(), under either build profile.
Init ==
    /\ overflow_checks \in BOOLEAN
    /\ capabilities = MockCapabilities
    /\ format = FormatNew(DefaultWidth, DefaultHeight, YUYV)
    /\ frame_count = 0
    /\ stream = NoStream
    /\ last_frame = <<>>
    /\ seqs = <<>>
    /\ returned = <<>>
    /\ aborted = FALSE
    /\ negotiated = <<>>
    /\ call = NoCall

\* MockDevice::with_format: needs the device by value, so no stream is live.
with_format(f) ==
    /\ ~aborted /\ ~stream.open
    /\ format' = f
    /\ call' = NoCall
    /\ negotiated' = IF negotiated = <<>> THEN <<>>
                     ELSE <<[negotiated[1] EXCEPT !.rebuilt = TRUE]>>
    /\ UNCHANGED <<overflow_checks, returned, capabilities, frame_count, stream,
                   last_frame, seqs, aborted>>

\* set_format that answers Ok(requested) and stores nothing: a variant the
\* properties below must tell from the original.
set_format_ignored(f) ==
    /\ ~aborted /\ ~stream.open
    /\ call' = [op |-> "set_format", args |-> <<f>>,
                res |-> [tag |-> "Ok", kind |-> "format", info |-> <<f>>]]
    /\ negotiated' = <<[actual |-> f, rebuilt |-> FALSE]>>
    /\ UNCHANGED <<overflow_checks, returned, capabilities, format, frame_count, stream,
                   last_frame, seqs, aborted>>

\* MockDevice::set_format: needs &mut self, so no stream is live.
set_format(f) ==
    /\ ~aborted /\ ~stream.open
    /\ format' = f
    /\ call' = [op |-> "set_format", args |-> <<f>>,
                res |-> [tag |-> "Ok", kind |-> "format", info |-> <<format'>>]]
    /\ negotiated' = <<[actual |-> format', rebuilt |-> FALSE]>>
    /\ UNCHANGED <<overflow_checks, returned, capabilities, frame_count, stream,
                   last_frame, seqs, aborted>>

\* MockDevice::format: needs &self, so no stream is live.
format_ ==
    /\ ~aborted /\ ~stream.open
    /\ call' = [op |-> "format", args |-> <<>>,
                res |-> [tag |-> "Ok", kind |-> "format", info |-> <<format>>]]
    /\ UNCHANGED <<overflow_checks, returned, negotiated, capabilities, format, frame_count,
                   stream, last_frame, seqs, aborted>>

\* create_stream that starts the counter again at 0: a variant the
\* properties below must tell from the original.
create_stream_resetting(buffer_count) ==
    /\ ~aborted /\ ~stream.open
    /\ stream' = [open |-> TRUE, pattern |-> ColorBars]
    /\ seqs' = <<>>
    /\ call' = NoCall
    /\ frame_count' = 0
    /\ UNCHANGED <<overflow_checks, returned, negotiated, capabilities, format,
                   last_frame, aborted>>

\* MockDevice::create_stream: the stream borrows the device.
create_stream(buffer_count) ==
    /\ ~aborted /\ ~stream.open
    /\ stream' = [open |-> TRUE, pattern |-> ColorBars]
    /\ seqs' = <<>>
    /\ call' = NoCall
    /\ UNCHANGED <<overflow_checks, returned, negotiated, capabilities, format, frame_count,
                   last_frame, aborted>>

\* MockStream::with_pattern.  The caller holds a frame only until its next
\* call on the stream.
with_pattern(p) ==
    /\ ~aborted /\ stream.open
    /\ stream' = [stream EXCEPT !.pattern = p]
    /\ last_frame' = <<>>
    /\ call' = NoCall
    /\ UNCHANGED <<overflow_checks, returned, negotiated, capabilities, format, frame_count,
                   seqs, aborted>>

\* next_frame that also puts the stream back to its initial pattern: a
\* variant the properties below must tell from the original.
next_frame_resetting ==
    /\ ~aborted /\ stream.open
    /\ frame_count < MaxFrames
    /\ format.width <= MaxWidth /\ format.height <= MaxHeight
    /\ LET gen == GeneratedFrames[format, stream.pattern]
           seq == frame_count
       IN  IF gen.panic
           THEN /\ aborted' = TRUE
                /\ UNCHANGED <<frame_count, last_frame, seqs, returned>>
           ELSE /\ frame_count' = frame_count + 1
                /\ last_frame' = <<MockFrame(format, gen.data, seq)>>
                /\ seqs' = Append(seqs, U32(seq))
                /\ returned' = Append(returned, U32(seq))
                /\ aborted' = FALSE
    /\ call' = NoCall
    /\ stream' = [stream EXCEPT !.pattern = ColorBars]
    /\ UNCHANGED <<overflow_checks, negotiated, capabilities, format>>

\* MockStream::next_frame.  A panic of the generator ends the process before
\* the counter is touched.
next_frame ==
    /\ ~aborted /\ stream.open
    /\ frame_count < MaxFrames
    /\ format.width <= MaxWidth /\ format.height <= MaxHeight
    /\ LET gen == GeneratedFrames[format, stream.pattern]
           seq == frame_count
       IN  IF gen.panic
           THEN /\ aborted' = TRUE
                /\ UNCHANGED <<frame_count, last_frame, seqs, returned>>
           ELSE /\ frame_count' = frame_count + 1
                /\ last_frame' = <<MockFrame(format, gen.data, seq)>>
                /\ seqs' = Append(seqs, U32(seq))
                /\ returned' = Append(returned, U32(seq))
                /\ aborted' = FALSE
    /\ call' = NoCall
    /\ UNCHANGED <<overflow_checks, negotiated, capabilities, format, stream>>

\* The stream goes out of scope; the caller lets go of its frame with it.
drop_stream ==
    /\ ~aborted /\ stream.open
    /\ stream' = NoStream
    /\ last_frame' = <<>>
    /\ seqs' = <<>>
    /\ call' = NoCall
    /\ UNCHANGED <<overflow_checks, returned, negotiated, capabilities, format, frame_count, aborted>>

\* The caller validates the frame it holds against the device's format.
call_validate_color_bars ==
    /\ ~aborted /\ last_frame # <<>>
    /\ LET res == validate_color_bars(last_frame[1], format)
       IN  /\ call' = [op |-> "validate_color_bars", args |-> <<format>>, res |-> res]
           /\ aborted' = (res.tag = "Panic")
    /\ UNCHANGED <<overflow_checks, returned, negotiated, capabilities, format, frame_count, stream,
                   last_frame, seqs>>

call_validate_gradient ==
    /\ ~aborted /\ last_frame # <<>>
    /\ LET res == validate_gradient(last_frame[1], format)
       IN  /\ call' = [op |-> "validate_gradient", args |-> <<format>>, res |-> res]
           /\ aborted' = (res.tag = "Panic")
    /\ UNCHANGED <<overflow_checks, returned, negotiated, capabilities, format, frame_count, stream,
                   last_frame, seqs>>

Next ==
    \/ \E f \in BuilderFormats : with_format(f)
    \/ format_
    \/ \E f \in Formats : set_format(f)
    \/ \E n \in {1, 4} : create_stream(n)
    \/ \E p \in Patterns : with_pattern(p)
    \/ next_frame
    \/ drop_stream
    \/ call_validate_color_bars
    \/ call_validate_gradient

Spec == Init /\ [][Next]_vars

(***************************************************************************)
(* Properties of the synthetic stream and of the validators on its frames. *)
(***************************************************************************)
\* The format is one Format::new returns.
FromFormatNew(f) == f = FormatNew(f.width, f.height, f.fourcc)

\* The caller holds a frame of pattern kind k and has just had it validated
\* by validator op against the format it was generated with.
Validated(op, k) ==
    /\ call.op = op
    /\ last_frame # <<>>
    /\ stream.pattern.kind = k
    /\ FromFormatNew(format)

\* C1: every stream's first frame has sequence 0 and each later frame of the
\* stream has the sequence of the frame before it plus one, also for a stream
\* created after an earlier stream of the device returned frames.
C1_PerStreamSequenceFromZero ==
    seqs # <<>> =>
        /\ seqs[1] = U32(0)
        /\ \A i \in 1..(Len(seqs) - 1) : seqs[i + 1] = U32Add(seqs[i], U32(1)).v

\* C2 as stated: with height >= 1 and width any positive multiple of 8, a
\* generated ColorBars frame passes validate_color_bars.
C2_ColorBarsAcceptedForMultiplesOf8 ==
    (/\ Validated("validate_color_bars", "ColorBars")
     /\ format.height >= 1
     /\ format.width >= 1 /\ format.width % 8 = 0)
        => call.res = VOk

\* C2 amended: with height >= 1 and width a multiple of 8 that is at least
\* 16, a generated ColorBars frame passes validate_color_bars.
C2_ColorBarsAcceptedFrom16 ==
    (/\ Validated("validate_color_bars", "ColorBars")
     /\ format.height >= 1
     /\ format.width >= 16 /\ format.width % 8 = 0)
        => call.res = VOk

C2_Witness ==
    /\ Validated("validate_color_bars", "ColorBars")
    /\ format.width = 24 /\ format.height = 3
    /\ call.res = VOk

\* C3 as stated: with width >= 1 and height >= 1, a generated Gradient frame
\* passes validate_gradient.
C3_GradientAcceptedForAllSizes ==
    (/\ Validated("validate_gradient", "Gradient")
     /\ format.width >= 1 /\ format.height >= 1)
        => call.res = VOk

\* C3 amended: with width >= 11 and height >= 1, a generated Gradient frame
\* passes validate_gradient, unless width mod 10 = 1 and height <= 2 (the
\* last sample is then the frame's last, unpaired pixel).
C3_GradientAcceptedFrom11 ==
    (/\ Validated("validate_gradient", "Gradient")
     /\ format.width >= 11 /\ format.height >= 1
     /\ ~(format.width % 10 = 1 /\ format.height <= 2))
        => call.res = VOk

C3_Witness ==
    /\ Validated("validate_gradient", "Gradient")
    /\ format.width = 21 /\ format.height = 3
    /\ call.res = VOk

\* C4: with width >= 1 and height >= 1, a generated Solid(y, u, v) frame is
\* rejected by validate_gradient with a StreamError.
C4_SolidRejectedByGradient ==
    (/\ Validated("validate_gradient", "Solid")
     /\ format.width >= 1 /\ format.height >= 1)
        => call.res.tag = "Err"

C4_Witness ==
    /\ Validated("validate_gradient", "Solid")
    /\ format.width = 24 /\ format.height = 2
    /\ call.res.tag = "Err" /\ call.res.kind = "flat"

\* C5: with width >= 1 and height >= 1, a generated ColorBars frame is
\* rejected by validate_gradient and a generated Gradient frame is rejected
\* by validate_color_bars.
C5_CrossPatternRejected ==
    /\ (/\ Validated("validate_gradient", "ColorBars")
        /\ format.width >= 1 /\ format.height >= 1)
           => call.res.tag = "Err"
    /\ (/\ Validated("validate_color_bars", "Gradient")
        /\ format.width >= 1 /\ format.height >= 1)
           => call.res.tag = "Err"

C5_Witness ==
    /\ Validated("validate_color_bars", "Gradient")
    /\ format.width = 24 /\ format.height = 3
    /\ call.res.tag = "Err" /\ call.res.kind = "mismatch"

\* The caller holds a frame the stream generated under the device's format
\* and the stream's pattern (neither can change while the frame is held).
HoldsFrame == last_frame # <<>> /\ stream.open

\* C11: every frame returned by next_frame has a data buffer whose length
\* equals metadata.bytes_used, and both equal the size field of the device's
\* current format, for every format the device can hold.
C11_FrameLengthIsFormatSize ==
    HoldsFrame =>
        /\ Len(last_frame[1].data) = last_frame[1].metadata.bytes_used
        /\ last_frame[1].metadata.bytes_used = format.size

\* C13 as stated: after set_format returned Ok(actual), every later format()
\* returns actual until the next set_format; and set_format on the synthetic
\* device returns Ok(requested).
C13_FormatIsLastSetFormat ==
    /\ (call.op = "format" /\ negotiated # <<>>)
           => call.res = [tag |-> "Ok", kind |-> "format",
                          info |-> <<negotiated[1].actual>>]
    /\ call.op = "set_format"
           => call.res = [tag |-> "Ok", kind |-> "format", info |-> <<call.args[1]>>]

\* C13 amended: after set_format returned Ok(actual), every later format()
\* returns actual until the next set_format or with_format; and set_format
\* on the synthetic device returns Ok(requested).
C13_FormatIsLastSetOrWithFormat ==
    /\ (call.op = "format" /\ negotiated # <<>> /\ ~negotiated[1].rebuilt)
           => call.res = [tag |-> "Ok", kind |-> "format",
                          info |-> <<negotiated[1].actual>>]
    /\ call.op = "set_format"
           => call.res = [tag |-> "Ok", kind |-> "format", info |-> <<call.args[1]>>]

\* format() is called after set_format and frames of a stream in between.
C13_Witness ==
    /\ call.op = "format"
    /\ negotiated # <<>> /\ ~negotiated[1].rebuilt
    /\ frame_count = 2
    /\ call.res.info[1] = FormatNew(24, 3, YUYV)

\* C14: for every format the device can hold and every pattern, next_frame
\* completes; it never aborts.
C14_NextFrameNeverAborts == [][next_frame => ~aborted']_vars

\* C15: the data of a frame is a function of the device's format and the
\* selected pattern only, whatever the frame counter and however many frames
\* or streams came before.
C15_DataDependsOnFormatAndPattern ==
    HoldsFrame => last_frame[1].data = GeneratedFrames[format, stream.pattern].data

\* The third frame of a second stream, with a pattern chosen on that stream.
C15_Witness ==
    /\ HoldsFrame
    /\ stream.pattern = Gradient
    /\ format.width = 24 /\ format.height = 3
    /\ last_frame[1].metadata.sequence = U32(2)
    /\ Len(seqs) = 1

PixelBytes(data, width, x, y) ==
    <<data[(2 * ((y * width) + x)) + 1], data[(2 * ((y * width) + x)) + 2]>>

\* C19: in every generated ColorBars or Gradient frame of width >= 8 (odd
\* widths included) and height >= 2, pixel x of every row y, the last row
\* included, has the bytes of pixel x of row 0.
C19_RowsIdentical ==
    (/\ HoldsFrame
     /\ stream.pattern.kind \in {"ColorBars", "Gradient"}
     /\ FromFormatNew(format)
     /\ format.width >= 8 /\ format.height >= 2)
        => \A y \in 0..(format.height - 1), x \in 0..(format.width - 1) :
              PixelBytes(last_frame[1].data, format.width, x, y) =
                  PixelBytes(last_frame[1].data, format.width, x, 0)

\* The four bytes [Y, U, Y, V] of bar min(x / (width/8), 7).
BarQuad(width, x) ==
    LET bar == bars[Min(x \div (width \div 8), 7) + 1]
    IN  <<bar[1], bar[2], bar[1], bar[3]>>

\* The frame holds the four bytes q from byte offset on.
QuadAt(data, offset, q) ==
    /\ offset + 4 <= Len(data)
    /\ SubSeq(data, offset + 1, offset + 4) = q

\* C20 as stated: in a generated ColorBars frame of width >= 8 the pixel pair
\* starting at every even x of every row is [Y, U, Y, V] of bar
\* min(x / (width/8), 7), and byte 0 of the frame (when it has bytes) is 235.
C20_PairsCarryBar ==
    (/\ HoldsFrame
     /\ stream.pattern.kind = "ColorBars"
     /\ FromFormatNew(format)
     /\ format.width >= 8)
        => /\ \A y \in 0..(format.height - 1) :
                \A x \in {n \in 0..(format.width - 1) : n % 2 = 0} :
                   QuadAt(last_frame[1].data, 2 * ((y * format.width) + x),
                          BarQuad(format.width, x))
           /\ Len(last_frame[1].data) > 0 => last_frame[1].data[1] = 235

(***************************************************************************)
(* Frame::pixel_at on arbitrary buffers and coordinates.  The function is  *)
(* pure: a behaviour draws the buffer, then makes one call.                *)
(***************************************************************************)
\* A frame around a raw buffer.
RawFrame(data) ==
    [data |-> data,
     metadata |-> [sequence |-> U32(0), timestamp |-> 0, bytes_used |-> Len(data)]]

\* Buffers of every length up to MaxBufLen, no two neighbouring bytes alike.
PixelBuffers ==
    {[i \in 1..n |-> (k + (19 * i)) % 256] : n \in 0..MaxBufLen, k \in {16, 131}}

\* Coordinates and widths: the small ones, and two whose products leave u32.
Coords == (0..MaxCoord) \cup {32768, 65536}

InitPixel ==
    /\ overflow_checks \in BOOLEAN
    /\ capabilities = MockCapabilities
    /\ format = FormatNew(DefaultWidth, DefaultHeight, YUYV)
    /\ frame_count = 0
    /\ stream = NoStream
    /\ last_frame \in {<<RawFrame(d)>> : d \in PixelBuffers}
    /\ seqs = <<>>
    /\ returned = <<>>
    /\ aborted = FALSE
    /\ negotiated = <<>>
    /\ call = NoCall

call_pixel_at(x, y, width) ==
    /\ call = NoCall
    /\ LET res == pixel_at(last_frame[1].data, x, y, width)
       IN  /\ call' = [op |-> "pixel_at", args |-> <<x, y, width>>, res |-> res]
           /\ aborted' = (res.tag = "Panic")
    /\ UNCHANGED <<overflow_checks, returned, negotiated, capabilities, format, frame_count, stream,
                   last_frame, seqs>>

NextPixel == \E x \in Coords, y \in Coords, width \in Coords : call_pixel_at(x, y, width)

SpecPixel == InitPixel /\ [][NextPixel]_vars

\* C6: pixel_at(x, y, width) is None for every x >= width, whatever y and
\* the buffer (also when the buffer holds further rows after row y).
C6_NoneBeyondWidth ==
    (call.op = "pixel_at" /\ call.args[1] >= call.args[3])
        => call.res.tag = "None"

\* The reference lookup of C7, on unbounded integers: with pair_x = x
\* rounded down to even and offset = (y*width + pair_x)*2, None when
\* offset + 4 exceeds the buffer length, else the conversion of the luma at
\* offset (x even) or offset+2 (x odd), U at offset+1 and V at offset+3.
\* (y*width is formed only when it cannot exceed the buffer length.)
ReferenceLookup(data, x, y, width) ==
    LET pair_x == x - (x % 2)
        len    == Len(data)
        beyond == \/ (y > len /\ width >= 1)
                  \/ (width > len /\ y >= 1)
                  \/ pair_x > len
        offset == ((y * width) + pair_x) * 2
    IN  IF beyond \/ offset + 4 > len THEN PixNone
        ELSE PixSome(yuv_to_rgb(IF x % 2 = 0 THEN data[offset + 1] ELSE data[offset + 3],
                                data[offset + 2], data[offset + 4]))

\* C7: pixel_at agrees with the reference lookup for every buffer and every
\* (x, y, width).
C7_AgreesWithReference ==
    call.op = "pixel_at"
        => call.res = ReferenceLookup(last_frame[1].data,
                                      call.args[1], call.args[2], call.args[3])

(***************************************************************************)
(* validate_frame_sequence on arbitrary runs of frames.                    *)
(***************************************************************************)
SeqValues == {U32(n) : n \in 0..MaxSeqVal} \cup {<<Limb - 1, Limb - 2>>, U32Max}

SeqFrame(s) ==
    [data |-> <<>>, metadata |-> [sequence |-> s, timestamp |-> 0, bytes_used |-> 0]]

FrameRuns ==
    UNION {{[i \in 1..n |-> SeqFrame(ss[i])] : ss \in [1..n -> SeqValues]} :
           n \in 0..MaxSeqLen}

InitSeq ==
    /\ overflow_checks \in BOOLEAN
    /\ capabilities = MockCapabilities
    /\ format = FormatNew(DefaultWidth, DefaultHeight, YUYV)
    /\ frame_count = 0
    /\ stream = NoStream
    /\ last_frame = <<>>
    /\ seqs = <<>>
    /\ returned = <<>>
    /\ aborted = FALSE
    /\ negotiated = <<>>
    /\ call = NoCall

call_validate_frame_sequence(frames) ==
    /\ call = NoCall
    /\ LET res == validate_frame_sequence(frames)
       IN  /\ call' = [op |-> "validate_frame_sequence", args |-> <<frames>>,
                       res |-> res]
           /\ aborted' = (res.tag = "Panic")
    /\ UNCHANGED <<overflow_checks, returned, negotiated, capabilities, format, frame_count, stream,
                   last_frame, seqs>>

NextSeq == \E frames \in FrameRuns : call_validate_frame_sequence(frames)

SpecSeq == InitSeq /\ [][NextSeq]_vars

\* Frame i+1 (Rust index i) follows frame i by exactly one, as integers.
FollowsByOne(frames, i) ==
    /\ frames[i].metadata.sequence # U32Max
    /\ frames[i + 1].metadata.sequence =
           U32Add(frames[i].metadata.sequence, U32(1)).v

\* C8: validate_frame_sequence returns Ok exactly when the run is non-empty
\* and every frame follows the one before it by exactly one as integers (0
\* after 2^32-1 does not); otherwise it returns a StreamError, which for a
\* gap names the lowest breaking index and the value expected there.
C8_OkIffContiguous ==
    call.op = "validate_frame_sequence" =>
        LET frames == call.args[1]
            breaks == {i \in 1..(Len(frames) - 1) : ~FollowsByOne(frames, i)}
        IN  IF Len(frames) > 0 /\ breaks = {}
            THEN call.res = VOk
            ELSE /\ call.res.tag = "Err"
                 /\ breaks # {} =>
                      LET i == CHOOSE m \in breaks : \A o \in breaks : m <= o
                      IN  /\ call.res.kind = "gap"
                          /\ call.res.info[1] = i
                          /\ frames[i].metadata.sequence # U32Max =>
                               call.res.info[2] =
                                   U32Add(frames[i].metadata.sequence, U32(1)).v

(***************************************************************************)
(* The two pattern validators on any frame against any format.             *)
(***************************************************************************)
\* A format written as a struct literal (the fields are public): its centre
\* row times its width leaves u32.
BigFormat ==
    [width |-> 65536, height |-> 131072, fourcc |-> YUYV,
     stride |-> 131072, size |-> 0]

ValidationFormats == Formats \cup {BigFormat}

\* The frames a stream hands out for the bounded formats, one per pattern
\* kind; the empty frame of a 0 x 0 format is among them.
ValidationFrames ==
    {MockFrame(k[1], GeneratedFrames[k].data, 0) :
        k \in {g \in DOMAIN GeneratedFrames :
                  /\ ~GeneratedFrames[g].panic
                  /\ g[2] \in {ColorBars, Gradient, Solid(128, 0, 255)}}}

\* Captured color bars that went dark from bar k on: the 16 x 2 frame with
\* every byte of bars k..7 zeroed.
DamagedFrames ==
    LET fmt  == FormatNew(16, 2, YUYV)
        good == GeneratedFrames[fmt, ColorBars].data
    IN  {MockFrame(fmt, [j \in 1..Len(good) |->
                            IF (j - 1) % 32 >= 4 * k THEN 0 ELSE good[j]], 0) :
            k \in 0..7}

InitValidate ==
    /\ overflow_checks \in BOOLEAN
    /\ capabilities = MockCapabilities
    /\ format = FormatNew(DefaultWidth, DefaultHeight, YUYV)
    /\ frame_count = 0
    /\ stream = NoStream
    /\ last_frame \in {<<f>> : f \in ValidationFrames \cup DamagedFrames}
    /\ seqs = <<>>
    /\ returned = <<>>
    /\ aborted = FALSE
    /\ negotiated = <<>>
    /\ call = NoCall

validate_color_bars_against(fmt) ==
    /\ call = NoCall
    /\ LET res == validate_color_bars(last_frame[1], fmt)
       IN  /\ call' = [op |-> "validate_color_bars", args |-> <<fmt>>, res |-> res]
           /\ aborted' = (res.tag = "Panic")
    /\ UNCHANGED <<overflow_checks, returned, negotiated, capabilities, format, frame_count, stream,
                   last_frame, seqs>>

validate_gradient_against(fmt) ==
    /\ call = NoCall
    /\ LET res == validate_gradient(last_frame[1], fmt)
       IN  /\ call' = [op |-> "validate_gradient", args |-> <<fmt>>, res |-> res]
           /\ aborted' = (res.tag = "Panic")
    /\ UNCHANGED <<overflow_checks, returned, negotiated, capabilities, format, frame_count, stream,
                   last_frame, seqs>>

NextValidate ==
    \/ \E fmt \in ValidationFormats : validate_color_bars_against(fmt)
    \/ \E fmt \in ValidationFormats : validate_gradient_against(fmt)

SpecValidate == InitValidate /\ [][NextValidate]_vars

\* The coordinates a validator samples under a format.
SampleCoords(op, fmt) ==
    IF op = "validate_color_bars"
    THEN {<<(k * (fmt.width \div 8)) + ((fmt.width \div 8) \div 2), fmt.height \div 2>> :
             k \in 0..7}
    ELSE {<<x, fmt.height \div 2>> : x \in {n \in 0..(fmt.width - 1) : n % 10 = 0}}

\* C9: for every frame and every format the two validators return Ok or a
\* StreamError and never abort; Ok is returned only when every sample could
\* be read, and an error about an unreadable sample carries a sample
\* coordinate that pixel_at does not read.
C9_ValidatorsNeverAbort ==
    call.op \in {"validate_color_bars", "validate_gradient"} =>
        LET fmt == call.args[1]
            unreadable ==
                {c \in SampleCoords(call.op, fmt) :
                    pixel_at(last_frame[1].data, c[1], c[2], fmt.width).tag # "Some"}
        IN  /\ call.res.tag \in {"Ok", "Err"}
            /\ call.res.tag = "Ok" => unreadable = {}
            /\ call.res.kind = "pixel" => <<call.res.info[1], call.res.info[2]>> \in unreadable

\* The frame holds exactly the width x height pixels the format states.
DimensionsMatch(frame, fmt) ==
    /\ fmt.width <= MaxWidth
    /\ fmt.height <= MaxHeight
    /\ Len(frame.data) = 2 * fmt.width * fmt.height

\* C10: validate_color_bars and validate_gradient return a StreamError
\* whenever the frame's dimensions do not match the format passed in.
C10_DimensionMismatchRejected ==
    (/\ call.op \in {"validate_color_bars", "validate_gradient"}
     /\ ~DimensionsMatch(last_frame[1], call.args[1]))
        => call.res.tag = "Err"

\* C16: validate_gradient returns Ok only when, for the samples at
\* x = 0, 10, 20, ... < width on row height/2, no sample's luminance is more
\* than 1.0 below the previous sample's and the last sample's luminance
\* minus the first sample's is at least 50; also for formats whose width
\* gives one sample or none.
C16_GradientOkOnlyWhenRising ==
    (call.op = "validate_gradient" /\ call.res = VOk) =>
        LET fmt  == call.args[1]
            xs   == {n \in 0..(fmt.width - 1) : n % 10 = 0}
            px(x) == pixel_at(last_frame[1].data, x, fmt.height \div 2, fmt.width)
            lum(x) == luminance(px(x).rgb)
        IN  /\ \A x \in xs : px(x).tag = "Some"
            /\ \A x \in xs \ {0} : lum(x) >= lum(x - 10) - 1000
            /\ xs # {}
            /\ \A x \in xs : (\A o \in xs : o <= x) => lum(x) - lum(0) >= 50000

\* Every channel of a is within 15 of the channel of e.
WithinTolerance(a, e) ==
    \A c \in 1..3 : a[c] - e[c] <= 15 /\ e[c] - a[c] <= 15

\* C17: validate_color_bars examines the bars in index order, sampling bar k
\* at x = k*(width/8) + (width/8)/2 on row height/2, and stops at the first
\* bar that fails: a mismatch error names the first bar k whose sample is
\* not within 15 of the expected RGB on all three channels, every bar below
\* k was read and matched, and the error is determined by bars 0..k alone.
C17_FirstFailingBarReported ==
    (call.op = "validate_color_bars" /\ call.res.kind = "mismatch") =>
        LET fmt   == call.args[1]
            bw    == fmt.width \div 8
            sx(j) == (j * bw) + (bw \div 2)
            cy    == fmt.height \div 2
            px(j) == pixel_at(last_frame[1].data, sx(j), cy, fmt.width)
            k     == call.res.info[1]
        IN  /\ k \in 0..7
            /\ \A j \in 0..(k - 1) :
                  /\ px(j).tag = "Some"
                  /\ WithinTolerance(px(j).rgb, SMPTE_COLOR_BARS[j + 1])
            /\ px(k).tag = "Some"
            /\ ~WithinTolerance(px(k).rgb, SMPTE_COLOR_BARS[k + 1])
            /\ call.res = VErr("mismatch", <<k, sx(k), cy, SMPTE_COLOR_BARS[k + 1],
                                             px(k).rgb>>)

\* Bars 0..4 of a frame matched and bar 5 did not.
C17_Witness ==
    /\ call.op = "validate_color_bars"
    /\ call.res.kind = "mismatch"
    /\ call.res.info[1] = 5

(***************************************************************************)
(* Format::new over the whole u32 range of its arguments.  Widths and      *)
(* heights are limb pairs here, and so are the stride and size returned.   *)
(***************************************************************************)
FormatOk(fmt) == [tag |-> "Ok", kind |-> "format", info |-> <<fmt>>]
FormatPanic == [tag |-> "Panic", kind |-> "format", info |-> <<>>]

\* Format::new with stride = width: a variant the properties below must
\* tell from the original.
Format_new_packed(width, height, fourcc) ==
    LET size == U32Mul(width, height)
    IN  IF overflow_checks /\ size.ovf THEN FormatPanic
        ELSE FormatOk([width |-> width, height |-> height, fourcc |-> fourcc,
                       stride |-> width, size |-> size.v])

\* Format::new: stride = width * 2, size = stride * height, each a u32
\* product that panics under overflow checks and wraps without them.
Format_new(width, height, fourcc) ==
    LET stride == U32Mul(width, U32(2))
        size   == U32Mul(stride.v, height)
    IN  IF overflow_checks /\ (stride.ovf \/ size.ovf) THEN FormatPanic
        ELSE FormatOk([width |-> width, height |-> height, fourcc |-> fourcc,
                       stride |-> stride.v, size |-> size.v])

\* Widths and heights: the small ones, the default ones, and those around
\* 2^16, 2^31 and 2^32.
Dimensions ==
    {U32(n) : n \in 0..MaxCoord}
    \cup {U32(DefaultWidth), U32(DefaultHeight)}
    \cup {<<0, Limb - 1>>, <<1, 0>>, <<32767, Limb - 1>>, <<32768, 0>>, U32Max}

InitFormat ==
    /\ overflow_checks \in BOOLEAN
    /\ capabilities = MockCapabilities
    /\ format = FormatNew(DefaultWidth, DefaultHeight, YUYV)
    /\ frame_count = 0
    /\ stream = NoStream
    /\ last_frame = <<>>
    /\ seqs = <<>>
    /\ returned = <<>>
    /\ aborted = FALSE
    /\ negotiated = <<>>
    /\ call = NoCall

call_Format_new(width, height, fourcc) ==
    /\ call = NoCall
    /\ LET res == Format_new(width, height, fourcc)
       IN  /\ call' = [op |-> "Format::new", args |-> <<width, height, fourcc>>,
                       res |-> res]
           /\ aborted' = (res.tag = "Panic")
    /\ UNCHANGED <<overflow_checks, returned, negotiated, capabilities, format, frame_count,
                   stream, last_frame, seqs>>

NextFormat ==
    \E width \in Dimensions, height \in Dimensions, fourcc \in {YUYV, MJPG, RGB3} :
        call_Format_new(width, height, fourcc)

SpecFormat == InitFormat /\ [][NextFormat]_vars

\* 2*w fits in 32 bits.
DoubleFits(w) == w[1] < 32768

\* 2*w*h fits in 32 bits (w*h is formed only when it is below 2^31).
DoubleProductFits(w, h) ==
    \/ w = U32(0)
    \/ h = U32(0)
    \/ /\ w[1] < 32768 /\ h[1] < 32768
       /\ U32ToNat(w) <= 2147483647 \div U32ToNat(h)

\* 2*n as a limb pair, for n below 2^31.
Doubled(n) == <<n \div 32768, (n % 32768) * 2>>

\* Format::new returned the given width, height and code with
\* stride = 2*width and size = 2*width*height.
DerivedAsStated(w, h, c, res) ==
    /\ res.tag = "Ok"
    /\ res.info[1].width = w /\ res.info[1].height = h /\ res.info[1].fourcc = c
    /\ DoubleFits(w) /\ res.info[1].stride = Doubled(U32ToNat(w))
    /\ res.info[1].size =
           IF w = U32(0) \/ h = U32(0) THEN U32(0)
           ELSE Doubled(U32ToNat(w) * U32ToNat(h))

\* C12 as stated: Format::new(width, height, code) returns the given width,
\* height and code with stride = 2*width and size = 2*width*height for every
\* width and height with 2*width*height fitting in 32 bits, and every code.
C12_FormatNewDerivesStrideAndSize ==
    (/\ call.op = "Format::new"
     /\ DoubleProductFits(call.args[1], call.args[2]))
        => DerivedAsStated(call.args[1], call.args[2], call.args[3], call.res)

\* C12 amended: the same for every width and height with both 2*width and
\* 2*width*height fitting in 32 bits.
C12_FormatNewDerivesWhenStrideFits ==
    (/\ call.op = "Format::new"
     /\ DoubleFits(call.args[1])
     /\ DoubleProductFits(call.args[1], call.args[2]))
        => DerivedAsStated(call.args[1], call.args[2], call.args[3], call.res)

\* Format::new(640, 480, YUYV) gives stride 1280 and size 614400.
C12_Witness ==
    /\ call.op = "Format::new"
    /\ call.args = <<U32(640), U32(480), YUYV>>
    /\ call.res.info[1].stride = U32(1280)
    /\ call.res.info[1].size = U32(614400)

(***************************************************************************)
(* colors_match on arbitrary colours and every kind of i32 tolerance.      *)
(***************************************************************************)
\* RGB triples: the expected bars, black and white, and colours that differ
\* from (100, 150, 200) on one channel or on all.
Colors ==
    {SMPTE_COLOR_BARS[i] : i \in 1..8}
    \cup {<<0, 0, 0>>, <<255, 255, 255>>, <<100, 150, 200>>, <<105, 155, 205>>,
          <<120, 150, 200>>, <<110, 150, 200>>, <<111, 150, 200>>,
          <<100, 150, 184>>, <<100, 166, 200>>}

\* i32 tolerances: the small ones of either sign, and both ends of the type.
Tolerances ==
    ((0 - 2)..MaxTolerance) \cup {(0 - 2147483647) - 1, 255, 2147483647}

InitColors ==
    /\ overflow_checks \in BOOLEAN
    /\ capabilities = MockCapabilities
    /\ format = FormatNew(DefaultWidth, DefaultHeight, YUYV)
    /\ frame_count = 0
    /\ stream = NoStream
    /\ last_frame = <<>>
    /\ seqs = <<>>
    /\ returned = <<>>
    /\ aborted = FALSE
    /\ negotiated = <<>>
    /\ call = NoCall

call_colors_match(actual, expected, tolerance) ==
    /\ call = NoCall
    /\ call' = [op |-> "colors_match", args |-> <<actual, expected, tolerance>>,
                res |-> [tag |-> "Ok", kind |-> "bool",
                         info |-> <<colors_match(actual, expected, tolerance)>>]]
    /\ UNCHANGED <<overflow_checks, returned, negotiated, capabilities, format, frame_count,
                   stream, last_frame, seqs, aborted>>

NextColors ==
    \E actual \in Colors, expected \in Colors, tolerance \in Tolerances :
        call_colors_match(actual, expected, tolerance)

SpecColors == InitColors /\ [][NextColors]_vars

\* C21: colors_match(actual, expected, tolerance) is true exactly when the
\* absolute difference on each of the three channels is at most tolerance,
\* for every pair of RGB triples and every tolerance of the i32 parameter.
C21_MatchIffWithinTolerance ==
    call.op = "colors_match" =>
        LET a == call.args[1]
            e == call.args[2]
            t == call.args[3]
        IN  call.res.info[1] =
                (\A c \in 1..3 : a[c] - e[c] <= t /\ e[c] - a[c] <= t)

(***************************************************************************)
(* The frame counter over the life of the device.                          *)
(***************************************************************************)
\* The frames from the i-th to the j-th one the device returned, as the
\* validator sees them (it reads metadata.sequence only).
ReturnedRun(i, j) == [m \in 1..((j - i) + 1) |-> SeqFrame(returned[(i + m) - 1])]

\* The counter equals the number of frames returned by all streams, the
\* k-th frame returned has sequence k-1, and every run of consecutive frames
\* passes validate_frame_sequence.
CounterCountsAllFrames ==
    /\ frame_count = Len(returned)
    /\ \A k \in 1..Len(returned) : returned[k] = U32(k - 1)
    /\ \A i \in 1..Len(returned) : \A j \in i..Len(returned) :
          validate_frame_sequence(ReturnedRun(i, j)) = VOk

====
